---------------------------- MODULE Spec2Model ----------------------------
(***************************************************************************)
(* Model of backend/main.py: the /process-fix handler (process_fix) and    *)
(* its helper get_github_code.                                             *)
(*                                                                         *)
(* A Python str is modelled as the sequence of its code points, each code  *)
(* point a one-character TLA+ string (a non-ASCII or control code point,   *)
(* and the backtick U+0060, is written "U+XXXX").  The operators in,       *)
(* str.replace and + are computed on these sequences.  Dictionary keys and *)
(* the values of the entries' "type" field and of the payload's "status"   *)
(* field are never subjected to a string operation and are kept as TLA+    *)
(* strings.                                                                *)
(***************************************************************************)
EXTENDS Naturals, Sequences, FiniteSets

(***************************************************************************)
(* String literals of the source.                                          *)
(***************************************************************************)
\* name of the environment variable read in line 12
CREDENTIAL_NAME ==
  <<"G", "E", "M", "I", "N", "I", "_", "A", "P", "I", "_", "K", "E", "Y">>

\* "github.com" (lines 40, 41, 57)
GITHUB_COM ==
  <<"g", "i", "t", "h", "u", "b", ".", "c", "o", "m">>

\* "blob" (line 40)
BLOB ==
  <<"b", "l", "o", "b">>

\* "raw.githubusercontent.com" (line 41)
RAW_HOST ==
  <<"r", "a", "w", ".", "g", "i", "t", "h", "u", "b", "u", "s", "e", "r", "c", "o", "n",
     "t", "e", "n", "t", ".", "c", "o", "m">>

\* "/blob/" (line 41)
BLOB_SEGMENT ==
  <<"/", "b", "l", "o", "b", "/">>

\* "/" (line 41)
SLASH ==
  <<"/">>

\* message of the log entry of line 53
MSG_CONNECTED ==
  <<"U+1F680", " ", "S", "y", "s", "t", "e", "m", ":", " ", "C", "o", "n", "n", "e", "c",
     "t", "e", "d", " ", "t", "o", " ", "G", "o", "o", "g", "l", "e", " ", "G", "e", "m",
     "i", "n", "i", ".">>

\* message of the log entry of line 58
MSG_FETCHING ==
  <<"U+1F310", " ", "N", "e", "t", "w", "o", "r", "k", ":", " ", "F", "e", "t", "c", "h",
     "i", "n", "g", " ", "s", "o", "u", "r", "c", "e", " ", "f", "r", "o", "m", " ", "G",
     "i", "t", "H", "u", "b", ".", ".", ".">>

\* initial value of fixed_code (line 62)
DEFAULT_FIXED_CODE ==
  <<"#", " ", "E", "r", "r", "o", "r", ":", " ", "A", "I", " ", "G", "e", "n", "e", "r",
     "a", "t", "i", "o", "n", " ", "F", "a", "i", "l", "e", "d">>

\* message of the log entry of line 65
MSG_MISSING_KEY ==
  <<"U+274C", " ", "S", "e", "r", "v", "e", "r", " ", "E", "r", "r", "o", "r", ":", " ",
     "M", "i", "s", "s", "i", "n", "g", " ", "G", "E", "M", "I", "N", "I", "_", "A", "P",
     "I", "_", "K", "E", "Y", " ", "i", "n", " ", ".", "e", "n", "v", ".">>

\* message of the log entry of line 68
MSG_ANALYZING ==
  <<"U+26A1", " ", "A", "I", " ", "C", "o", "r", "e", ":", " ", "A", "n", "a", "l", "y",
     "z", "i", "n", "g", " ", "L", "o", "g", "i", "c", ".", ".", ".">>

\* the f-string of lines 73-83, up to {actual_code}
PROMPT_HEAD ==
  <<"U+000A", " ", " ", " ", " ", " ", " ", " ", " ", " ", " ", " ", " ", "Y", "o", "u",
     " ", "a", "r", "e", " ", "a", "n", " ", "e", "x", "p", "e", "r", "t", " ", "P", "y",
     "t", "h", "o", "n", " ", "D", "e", "v", "O", "p", "s", " ", "A", "g", "e", "n", "t",
     ".", " ", "U+000A", " ", " ", " ", " ", " ", " ", " ", " ", " ", " ", " ", " ", "F",
     "i", "x", " ", "t", "h", "i", "s", " ", "b", "r", "o", "k", "e", "n", " ", "c", "o",
     "d", "e", " ", "b", "a", "s", "e", "d", " ", "o", "n", " ", "t", "h", "e", " ", "e",
     "r", "r", "o", "r", ".", "U+000A", " ", " ", " ", " ", " ", " ", " ", " ", " ", " ",
     " ", " ", "R", "e", "t", "u", "r", "n", " ", "O", "N", "L", "Y", " ", "t", "h", "e",
     " ", "f", "i", "x", "e", "d", " ", "c", "o", "d", "e", ".", " ", "N", "o", " ", "m",
     "a", "r", "k", "d", "o", "w", "n", " ", "b", "l", "o", "c", "k", "s", ".", "U+000A",
     " ", " ", " ", " ", " ", " ", " ", " ", " ", " ", " ", " ", "U+000A", " ", " ", " ",
     " ", " ", " ", " ", " ", " ", " ", " ", " ", "C", "O", "D", "E", ":", "U+000A", " ",
     " ", " ", " ", " ", " ", " ", " ", " ", " ", " ", " ">>

\* the f-string of lines 73-83, between the two fields
PROMPT_MID ==
  <<"U+000A", " ", " ", " ", " ", " ", " ", " ", " ", " ", " ", " ", " ", "U+000A", " ",
     " ", " ", " ", " ", " ", " ", " ", " ", " ", " ", " ", "E", "R", "R", "O", "R", ":",
     "U+000A", " ", " ", " ", " ", " ", " ", " ", " ", " ", " ", " ", " ">>

\* the f-string of lines 73-83, after {request.error_log}
PROMPT_TAIL ==
  <<"U+000A", " ", " ", " ", " ", " ", " ", " ", " ", " ", " ", " ", " ">>

\* first literal replaced in line 89 (fence opener tagged python)
FENCE_PYTHON ==
  <<"U+0060", "U+0060", "U+0060", "p", "y", "t", "h", "o", "n">>

\* second literal replaced in line 89 (bare fence)
FENCE ==
  <<"U+0060", "U+0060", "U+0060">>

\* message of the log entry of line 91
MSG_PATCH_APPLIED ==
  <<"U+2705", " ", "O", "p", "t", "i", "m", "i", "z", "a", "t", "i", "o", "n", ":", " ",
     "L", "o", "g", "i", "c", " ", "P", "a", "t", "c", "h", " ", "A", "p", "p", "l", "i",
     "e", "d", ".">>

\* message of the log entry of line 92
MSG_DEPLOYMENT_READY ==
  <<"S", "U", "C", "C", "E", "S", "S", ":", " ", "D", "e", "p", "l", "o", "y", "m", "e",
     "n", "t", " ", "R", "e", "a", "d", "y", ".">>

\* "429" (line 97)
RATE_LIMIT_TOKEN ==
  <<"4", "2", "9">>

\* message of the log entry of line 98
MSG_QUOTA ==
  <<"U+26A0", "U+FE0F", " ", "Q", "U", "O", "T", "A", " ", "E", "X", "C", "E", "E", "D",
     "E", "D", ":", " ", "G", "o", "o", "g", "l", "e", " ", "h", "a", "s", " ", "t", "e",
     "m", "p", "o", "r", "a", "r", "i", "l", "y", " ", "l", "o", "c", "k", "e", "d", " ",
     "t", "h", "i", "s", " ", "k", "e", "y", ".">>

\* fixed_code of the quota branch (line 99)
QUOTA_FIXED_CODE ==
  <<"#", " ", "E", "r", "r", "o", "r", ":", " ", "Q", "u", "o", "t", "a", " ", "E", "x",
     "c", "e", "e", "d", "e", "d", ".", " ", "U", "s", "e", " ", "a", " ", "d", "i", "f",
     "f", "e", "r", "e", "n", "t", " ", "k", "e", "y", " ", "o", "r", " ", "w", "a", "i",
     "t", ".">>

\* prefix of the f-string of line 101
GOOGLE_ERROR_PREFIX ==
  <<"U+274C", " ", "G", "o", "o", "g", "l", "e", " ", "E", "r", "r", "o", "r", ":", " ">>

\* prefix of the f-string of line 102
ERROR_PREFIX ==
  <<"#", " ", "E", "r", "r", "o", "r", ":", " ">>

\* the status code compared with in line 44
HTTP_OK == 200

\* None of Python: the value of os.getenv for an unset variable (line 12) and,
\* in the model, of a local that is not bound yet.  It is no sequence of
\* code points, so it differs from every str.
None == <<"None">>

(***************************************************************************)
(* Python string operations.                                               *)
(***************************************************************************)
\* prefix test used by the two scans below
StartsWith(s, p) ==
  Len(p) <= Len(s) /\ SubSeq(s, 1, Len(p)) = p

\* the operator `in` on two str
Contains(s, sub) ==
  \E i \in 1..(Len(s) + 1) :
    i + Len(sub) - 1 <= Len(s) /\ SubSeq(s, i, i + Len(sub) - 1) = sub

\* s.replace(old, new) for a non-empty old: one left-to-right scan, the
\* occurrences replaced are the leftmost non-overlapping ones, and the text
\* produced by a replacement is not scanned again
RECURSIVE Replace(_, _, _)
Replace(s, old, new) ==
  IF Len(s) < Len(old) THEN s
  ELSE IF StartsWith(s, old)
       THEN new \o Replace(SubSeq(s, Len(old) + 1, Len(s)), old, new)
       ELSE <<Head(s)>> \o Replace(Tail(s), old, new)

\* the operator `not` on a value that is None or a str
Falsy(v) ==
  v = None \/ v = <<>>

(***************************************************************************)
(* Exceptions.  The outbound calls raise instances of Exception or of one  *)
(* of its subclasses; the classes that derive from BaseException directly  *)
(* (KeyboardInterrupt, SystemExit, CancelledError) are not raised by a     *)
(* synchronous library call under the server's own signal handling.        *)
(***************************************************************************)
\* the direct base class of each class of the model
BaseOf ==
  [c \in {"BaseException", "Exception", "ValueError"} |->
     CASE c = "ValueError" -> "Exception"
       [] c = "Exception"  -> "BaseException"
       [] OTHER            -> "BaseException"]

\* issubclass(c, d)
RECURSIVE IsSubclass(_, _)
IsSubclass(c, d) ==
  IF c = d THEN TRUE
  ELSE IF c = "BaseException" THEN FALSE
  ELSE IsSubclass(BaseOf[c], d)

\* the bare except clause of line 45 handles every exception
BareExceptCatches(cls) ==
  IsSubclass(cls, "BaseException")

\* variant of ExceptExceptionCatches: the clause names ValueError only
ExceptExceptionCatches_ValueErrorOnly(cls) ==
  IsSubclass(cls, "ValueError")

\* the clause except Exception of line 94
ExceptExceptionCatches(cls) ==
  IsSubclass(cls, "Exception")

(***************************************************************************)
(* get_github_code, lines 38-47.                                           *)
(***************************************************************************)
\* variant of IsGithubBlob: the test for "blob" is left out
IsGithubBlob_HostOnly(url) ==
  Contains(url, GITHUB_COM)

\* the condition of line 40
IsGithubBlob(url) ==
  Contains(url, GITHUB_COM) /\ Contains(url, BLOB)

\* raw_url of line 41
RawUrl(url) ==
  Replace(Replace(url, GITHUB_COM, RAW_HOST), BLOB_SEGMENT, SLASH)

\* variant of GetResult: the status code is not looked at
GetResult_IgnoresStatus(url, o) ==
  IF o.kind = "raise"
  THEN [caught |-> BareExceptCatches(o.cls), value |-> url]
  ELSE [caught |-> TRUE, value |-> o.text]

\* the value get_github_code returns once requests.get has returned or
\* raised (lines 42-46); `caught` is FALSE when the exception escapes
GetResult(url, o) ==
  IF o.kind = "raise"
  THEN [caught |-> BareExceptCatches(o.cls), value |-> url]
  ELSE [caught |-> TRUE,
        value  |-> IF o.status_code = HTTP_OK THEN o.text ELSE url]

(***************************************************************************)
(* process_fix, lines 49-108.                                              *)
(***************************************************************************)
\* a log entry (the dict literals of lines 53, 58, 65, 68, 91, 92, 98, 101)
Entry(t, m) ==
  [type |-> t, message |-> m]

\* variant of LogAppend: logs.insert(0, entry)
LogAppend_Prepend(l, e) ==
  <<e>> \o l

\* logs.append(entry)
LogAppend(l, e) ==
  Append(l, e)

\* the condition of line 57
MentionsGithub(code_) ==
  Contains(code_, GITHUB_COM)

\* variant of CredentialMissing: the test is API_KEY is None
CredentialMissing_IsNone(key) ==
  key = None

\* the condition of line 64
CredentialMissing(key) ==
  Falsy(key)

\* the f-string of lines 73-83
BuildPrompt(actual, err) ==
  PROMPT_HEAD \o actual \o PROMPT_MID \o err \o PROMPT_TAIL

\* line 89
Cleanup(text) ==
  Replace(Replace(text, FENCE_PYTHON, <<>>), FENCE, <<>>)

\* variant of IsQuotaError: error_msg.startswith("429")
IsQuotaError_Prefix(error_msg) ==
  StartsWith(error_msg, RATE_LIMIT_TOKEN)

\* the condition of line 97
IsQuotaError(error_msg) ==
  Contains(error_msg, RATE_LIMIT_TOKEN)

\* variant of SuccessLogs: line 92 is left out
SuccessLogs_One(l) ==
  LogAppend(l, Entry("success", MSG_PATCH_APPLIED))

\* lines 91-92, after fixed_code is set
SuccessLogs(l) ==
  LogAppend(LogAppend(l, Entry("success", MSG_PATCH_APPLIED)),
            Entry("success", MSG_DEPLOYMENT_READY))

\* the log entry of the except branch, lines 97-101
ErrorEntry(error_msg) ==
  IF IsQuotaError(error_msg)
  THEN Entry("error", MSG_QUOTA)
  ELSE Entry("error", GOOGLE_ERROR_PREFIX \o error_msg)

\* fixed_code of the except branch, lines 97-102
ErrorFixedCode(error_msg) ==
  IF IsQuotaError(error_msg)
  THEN QUOTA_FIXED_CODE
  ELSE ERROR_PREFIX \o error_msg

\* variant of Payload: the status reports an error entry of the logs
Payload_StatusFromLogs(l, fc) ==
  [status |-> IF \E i \in DOMAIN l : l[i].type = "error"
              THEN "error" ELSE "success",
   logs |-> l, fixed_code |-> fc]

\* the returned dict, lines 104-108
Payload(l, fc) ==
  [status |-> "success", logs |-> l, fixed_code |-> fc]

(***************************************************************************)
(* Bounds and the inputs drawn from them.                                  *)
(***************************************************************************)
MaxCodeChunks == 2
MaxMsgChunks == 2
MaxTextChunks == 3

\* every concatenation of at most n members of chunks
RECURSIVE Concats(_, _)
Concats(chunks, n) ==
  IF n = 0 THEN {<<>>}
  ELSE LET S == Concats(chunks, n - 1)
       IN  S \cup {s \o c : s \in S, c \in chunks}

\* pieces of the request's code
CodeChunks ==
  {GITHUB_COM, BLOB_SEGMENT, BLOB, <<"x">>}

\* request.code
Codes ==
  Concats(CodeChunks, MaxCodeChunks)

\* request.error_log
ErrorLogs ==
  {<<>>, <<"E">>}

\* values of API_KEY after line 12: unset, set to the empty string, set
ApiKeys ==
  {None, <<>>, <<"k">>}

\* the text after "# Error: " in the quota placeholder of line 99
QuotaWording ==
  SubSeq(QUOTA_FIXED_CODE, Len(ERROR_PREFIX) + 1, Len(QUOTA_FIXED_CODE))

\* pieces of str(e)
MsgChunks ==
  {RATE_LIMIT_TOKEN, <<"4">>, <<"x">>, QuotaWording}

\* str(e)
ErrorMsgs ==
  Concats(MsgChunks, MaxMsgChunks)

\* a language tag other than python
JS == <<"j", "s">>

\* pieces of response.text
TextChunks ==
  {FENCE_PYTHON, FENCE, JS, <<"x">>}

\* response.text
Texts ==
  Concats(TextChunks, MaxTextChunks)

\* classes of the exceptions the outbound calls raise
RaisedClasses ==
  {"Exception", "ValueError"}

\* what requests.get(raw_url) does (line 43) and what the response holds
FetchOutcomes ==
  [kind : {"response"}, status_code : {200, 201, 404}, text : {<<>>, <<"y">>},
   cls : {"-"}]
  \cup [kind : {"raise"}, status_code : {0}, text : {<<>>}, cls : RaisedClasses]

\* requests.get has not been called, or has not returned yet
NoFetch ==
  [kind |-> "none", status_code |-> 0, text |-> <<>>, cls |-> "-"]

\* the calls of lines 71, 85 and 86, in the order they are made
ProviderSteps ==
  <<"GenerativeModel", "generate_content", "text">>

\* what the provider does: every call returns (and response.text is text),
\* or the call number `at` raises cls with str(e) = msg
CompletionOutcomes ==
  [kind : {"ok"}, at : {3}, text : Texts, cls : {"-"}, msg : {<<>>}]
  \cup [kind : {"raise"}, at : {1, 2, 3}, text : {<<>>}, cls : RaisedClasses,
        msg : ErrorMsgs]

\* the provider has not been called, or has not returned yet
NoCompletion ==
  [kind |-> "none", at |-> 0, text |-> <<>>, cls |-> "-", msg |-> <<>>]

(***************************************************************************)
(* State.                                                                  *)
(***************************************************************************)
VARIABLES
  API_KEY,        \* the module global of line 12
  pc,             \* where the handler is: "idle", "requests.get", "gemini",
                  \* "done" (returned), "raised" (an exception escaped)
  code,           \* request.code
  error_log,      \* request.error_log
  logs,           \* the local of line 53
  actual_code,    \* the local of line 56
  fixed_code,     \* the local of line 62
  prompt,         \* the argument of generate_content (line 85)
  httpCalls,      \* the URLs passed to requests.get in this request
  providerCalls,  \* the provider calls made in this request
  fetch,          \* the outcome of requests.get, NoFetch before
  completion,     \* the outcome of the provider calls, NoCompletion before
  responses       \* the payloads returned for this request

vars ==
  <<API_KEY, pc, code, error_log, logs, actual_code, fixed_code, prompt,
    httpCalls, providerCalls, fetch, completion, responses>>

Init ==
  /\ API_KEY \in ApiKeys
  /\ pc = "idle"
  /\ code = None
  /\ error_log = None
  /\ logs = <<>>
  /\ actual_code = None
  /\ fixed_code = None
  /\ prompt = None
  /\ httpCalls = <<>>
  /\ providerCalls = <<>>
  /\ fetch = NoFetch
  /\ completion = NoCompletion
  /\ responses = <<>>

\* lines 61-68 and 104-108: the handler from the assignment of line 62 up to
\* the provider calls or, with no credential, up to the return
AIProcessing(l, actual) ==
  /\ actual_code' = actual
  /\ fixed_code' = DEFAULT_FIXED_CODE
  /\ IF CredentialMissing(API_KEY)
     THEN /\ logs' = LogAppend(l, Entry("error", MSG_MISSING_KEY))
          /\ responses' = <<Payload(logs', fixed_code')>>
          /\ pc' = "done"
     ELSE /\ logs' = LogAppend(l, Entry("info", MSG_ANALYZING))
          /\ responses' = responses
          /\ pc' = "gemini"

\* lines 50-59: a request arrives; the handler runs up to requests.get, or
\* on through AIProcessing when get_github_code returns without a fetch
ProcessFix(c, e) ==
  /\ pc = "idle"
  /\ code' = c
  /\ error_log' = e
  /\ UNCHANGED <<API_KEY, prompt, providerCalls, fetch, completion>>
  /\ LET logs0 == <<Entry("info", MSG_CONNECTED)>>
     IN  IF MentionsGithub(c)
         THEN LET logs1 == LogAppend(logs0, Entry("info", MSG_FETCHING))
              IN  IF IsGithubBlob(c)
                  THEN /\ httpCalls' = Append(httpCalls, RawUrl(c))
                       /\ logs' = logs1
                       /\ actual_code' = c
                       /\ pc' = "requests.get"
                       /\ UNCHANGED <<fixed_code, responses>>
                  ELSE /\ httpCalls' = httpCalls
                       /\ AIProcessing(logs1, c)
         ELSE /\ httpCalls' = httpCalls
              /\ AIProcessing(logs0, c)

\* lines 43-46 and 59: requests.get returns or raises, get_github_code
\* returns, and the handler goes on through AIProcessing
GithubReturn(o) ==
  /\ pc = "requests.get"
  /\ fetch' = o
  /\ UNCHANGED <<API_KEY, code, error_log, prompt, httpCalls, providerCalls,
                 completion>>
  /\ LET r == GetResult(code, o)
     IN  IF r.caught
         THEN AIProcessing(logs, r.value)
         ELSE /\ pc' = "raised"
              /\ UNCHANGED <<logs, actual_code, fixed_code, responses>>

\* lines 71-102 and 104-108: the provider calls return or raise, and the
\* handler runs to its return
GeminiReturn(o) ==
  /\ pc = "gemini"
  /\ completion' = o
  /\ providerCalls' = SubSeq(ProviderSteps, 1, o.at)
  /\ prompt' = IF o.at >= 2 THEN BuildPrompt(actual_code, error_log) ELSE prompt
  /\ UNCHANGED <<API_KEY, code, error_log, actual_code, httpCalls, fetch>>
  /\ IF o.kind = "ok"
     THEN /\ fixed_code' = Cleanup(o.text)
          /\ logs' = SuccessLogs(logs)
          /\ responses' = <<Payload(logs', fixed_code')>>
          /\ pc' = "done"
     ELSE IF ExceptExceptionCatches(o.cls)
     THEN /\ fixed_code' = ErrorFixedCode(o.msg)
          /\ logs' = LogAppend(logs, ErrorEntry(o.msg))
          /\ responses' = <<Payload(logs', fixed_code')>>
          /\ pc' = "done"
     ELSE /\ pc' = "raised"
          /\ UNCHANGED <<logs, fixed_code, responses>>

\* the response is sent and the handler's locals go away; API_KEY stays
Finish ==
  /\ pc \in {"done", "raised"}
  /\ pc' = "idle"
  /\ code' = None
  /\ error_log' = None
  /\ logs' = <<>>
  /\ actual_code' = None
  /\ fixed_code' = None
  /\ prompt' = None
  /\ httpCalls' = <<>>
  /\ providerCalls' = <<>>
  /\ fetch' = NoFetch
  /\ completion' = NoCompletion
  /\ responses' = <<>>
  /\ UNCHANGED API_KEY

Next ==
  \/ \E c \in Codes, e \in ErrorLogs : ProcessFix(c, e)
  \/ \E o \in FetchOutcomes : GithubReturn(o)
  \/ \E o \in CompletionOutcomes : GeminiReturn(o)
  \/ Finish

Spec ==
  Init /\ [][Next]_vars

(***************************************************************************)
(* Properties.                                                             *)
(***************************************************************************)
\* number of entries of l whose type is t
Count(l, t) ==
  Cardinality({i \in DOMAIN l : l[i].type = t})

\* the positions of l holding an entry with message m
Positions(l, m) ==
  {i \in DOMAIN l : l[i].message = m}

\* p is a prefix of l
IsPrefix(p, l) ==
  Len(p) <= Len(l) /\ SubSeq(l, 1, Len(p)) = p

\* the handler has caught an exception of the provider calls
CompletionFailed ==
  completion.kind = "raise" /\ pc = "done"

\* C1: whatever the credential, the fetch outcome and the completion
\* outcome, the status field of every returned payload is "success".
C1_StatusAlwaysSuccess ==
  \A i \in DOMAIN responses : responses[i].status = "success"

\* a request whose fetch raised and whose completion failed with a
\* rate-limit message has been answered
C1_Witness ==
  /\ pc = "done"
  /\ fetch.kind = "raise"
  /\ CompletionFailed
  /\ IsQuotaError(completion.msg)
  /\ Len(responses) = 1
  /\ responses[1].status = "success"

\* C2: no failure of an outbound call escapes the handler: the handler is
\* suspended only at an outbound call that has not returned yet, and once
\* the calls have returned or raised it has returned a payload with exactly
\* the fields status, logs and fixed_code.
C2_NoExceptionEscapes ==
  /\ pc \in {"idle", "requests.get", "gemini", "done"}
  /\ pc = "requests.get" => fetch.kind = "none"
  /\ pc = "gemini" => completion.kind = "none"
  /\ (fetch.kind = "raise" /\ CredentialMissing(API_KEY)) => pc = "done"
  /\ completion.kind # "none" => pc = "done"
  /\ pc = "done" =>
       /\ Len(responses) = 1
       /\ DOMAIN responses[1] = {"status", "logs", "fixed_code"}
       /\ responses[1].logs = logs
       /\ responses[1].fixed_code = fixed_code

\* requests.get raised and then reading response.text raised, and the
\* handler returned
C2_Witness ==
  /\ pc = "done"
  /\ fetch.kind = "raise"
  /\ completion.kind = "raise"
  /\ completion.at = 3
  /\ completion.cls = "Exception"
  /\ Len(responses) = 1

\* C3: with no credential (API_KEY unset or empty) the provider is never
\* called, the analysis announcement is never logged, and the response has
\* exactly one error entry, which names the missing credential, and a
\* non-empty placeholder as fixed_code.
C3_NoCredentialNoProvider ==
  (API_KEY = None \/ API_KEY = <<>>) =>
    /\ providerCalls = <<>>
    /\ prompt = None
    /\ pc # "gemini"
    /\ completion.kind = "none"
    /\ Positions(logs, MSG_ANALYZING) = {}
    /\ pc = "done" =>
         /\ Len(responses) = 1
         /\ Count(responses[1].logs, "error") = 1
         /\ \A i \in DOMAIN responses[1].logs :
              responses[1].logs[i].type = "error" =>
                Contains(responses[1].logs[i].message, CREDENTIAL_NAME)
         /\ responses[1].fixed_code # None
         /\ Len(responses[1].fixed_code) > 0

\* a request holding a GitHub blob URL, fetched with status 200, has been
\* answered by a server whose API_KEY is the empty string
C3_Witness ==
  /\ pc = "done"
  /\ API_KEY = <<>>
  /\ fetch.kind = "response"
  /\ fetch.status_code = HTTP_OK
  /\ Count(logs, "error") = 1

\* the order of the entries of l that C4 states
Ordered(l) ==
  /\ l # <<>> => l[1] = Entry("info", MSG_CONNECTED)
  /\ \A i \in DOMAIN l : l[i].message = MSG_CONNECTED => i = 1
  /\ \A i \in Positions(l, MSG_FETCHING), j \in Positions(l, MSG_ANALYZING) :
       i < j
  /\ \A j \in DOMAIN l :
       (l[j].type \in {"success", "error"} /\ l[j].message # MSG_MISSING_KEY)
         => /\ Positions(l, MSG_ANALYZING) # {}
            /\ \A i \in Positions(l, MSG_ANALYZING) : i < j

\* C4: during a request the logs only grow at their end, and at every
\* moment the connection announcement is first, the fetch announcement (if
\* any) is before the analysis announcement, and the analysis announcement
\* is before every success or error entry of the completion step.
C4_LogsOrderedAppendOnly ==
  [][pc' # "idle" => (IsPrefix(logs, logs') /\ Ordered(logs'))]_vars

\* a response with all of connection, fetch and analysis announcements and
\* the two success entries
C4_Witness ==
  /\ pc = "done"
  /\ Len(logs) = 5
  /\ Positions(logs, MSG_FETCHING) = {2}
  /\ Positions(logs, MSG_ANALYZING) = {3}
  /\ Count(logs, "success") = 2

\* C5: fixed_code of every response is populated, never None and never the
\* empty string, whatever text the provider returned.
C5_FixedCodePopulated ==
  \A i \in DOMAIN responses :
    /\ responses[i].fixed_code # None
    /\ responses[i].fixed_code # <<>>

\* the generic failures: the messages without the rate-limit token
GenericMsgs ==
  {m \in ErrorMsgs : ~Contains(m, RATE_LIMIT_TOKEN)}

\* what C6 says of the entries and of fixed_code after a failed completion,
\* the quota placeholder being compared with the generic failures of G
FailureReported(G) ==
  CompletionFailed =>
    /\ Count(logs, "error") = 1
    /\ IF Contains(completion.msg, RATE_LIMIT_TOKEN)
       THEN /\ logs[Len(logs)] = Entry("error", MSG_QUOTA)
            /\ fixed_code = QUOTA_FIXED_CODE
            /\ \A m \in G : ERROR_PREFIX \o m # fixed_code
       ELSE /\ logs[Len(logs)].type = "error"
            /\ logs[Len(logs)].message = GOOGLE_ERROR_PREFIX \o completion.msg
            /\ fixed_code = ERROR_PREFIX \o completion.msg

\* C6 as stated: the quota placeholder differs from fixed_code of every
\* generic failure.
C6_QuotaDistinctFromEveryGeneric ==
  FailureReported(GenericMsgs)

\* C6, amended: a failure whose message contains "429" gives exactly one
\* error entry, with the quota wording, and the quota placeholder, which
\* differs from fixed_code of every generic failure but the one whose
\* message is the wording of the placeholder itself; any other failure gives
\* one error entry and a fixed_code that embed the raw message.
C6_QuotaClassification ==
  FailureReported(GenericMsgs \ {QuotaWording})

\* a failure whose message has "429" after other text, and so is a quota
\* failure only by the substring match
C6_Witness ==
  /\ CompletionFailed
  /\ Contains(completion.msg, RATE_LIMIT_TOKEN)
  /\ ~StartsWith(completion.msg, RATE_LIMIT_TOKEN)
  /\ fixed_code = QUOTA_FIXED_CODE

\* the language tags of a fence opener
LanguageTags ==
  {SubSeq(FENCE_PYTHON, Len(FENCE) + 1, Len(FENCE_PYTHON)), JS}

\* text without a backtick, the content enclosed by the fences
PlainContents ==
  Concats({<<"x">>}, MaxTextChunks)

\* C7: when the provider returns text wrapped in code fences, the opener
\* tagged with a language name or not, fixed_code is the enclosed content
\* with no fence marker left.
C7_FencesStripped ==
  (pc = "done" /\ completion.kind = "ok") =>
    \A tag \in LanguageTags \cup {<<>>}, content \in PlainContents :
      completion.text = FENCE \o tag \o content \o FENCE =>
        /\ fixed_code = content
        /\ ~Contains(fixed_code, FENCE)

\* C8: once requests.get has returned or raised, get_github_code has
\* returned the body if the status is 200 and the original input otherwise,
\* and has raised nothing.
C8_FetchFallback ==
  fetch.kind # "none" =>
    /\ pc # "raised"
    /\ actual_code = IF fetch.kind = "response" /\ fetch.status_code = 200
                     THEN fetch.text
                     ELSE code

\* a fetch answered with a status other than 200 and a body, the URL
\* fetched differing from the input
C8_Witness ==
  /\ fetch.kind = "response"
  /\ fetch.status_code # 200
  /\ fetch.text # <<>>
  /\ httpCalls # <<>>
  /\ httpCalls[1] # code
  /\ actual_code = code

\* C9: requests.get is called only for a code with both "github.com" and
\* "blob"; for any other code no call is made and the code put in the prompt
\* is the request's code, also when the fetch announcement was logged.
C9_FetchOnlyForBlobUrls ==
  /\ httpCalls # <<>> =>
       (Contains(code, GITHUB_COM) /\ Contains(code, BLOB))
  /\ Len(httpCalls) <= 1
  /\ (pc # "idle" /\ ~(Contains(code, GITHUB_COM) /\ Contains(code, BLOB))) =>
       /\ httpCalls = <<>>
       /\ fetch.kind = "none"
       /\ actual_code = code
       /\ prompt # None =>
            prompt = PROMPT_HEAD \o code \o PROMPT_MID \o error_log \o PROMPT_TAIL

\* a code with "github.com" and no "blob": the fetch was announced, no call
\* was made and the prompt was sent
C9_Witness ==
  /\ pc = "done"
  /\ Contains(code, GITHUB_COM)
  /\ ~Contains(code, BLOB)
  /\ Positions(logs, MSG_FETCHING) # {}
  /\ httpCalls = <<>>
  /\ prompt # None

\* C10: a response has either the two success entries (patch, then
\* completion) and no error entry, exactly when the completion succeeded,
\* fixed_code being the cleaned text; or one error entry and no success
\* entry, exactly when the credential is missing or the completion raised.
C10_OutcomeExclusive ==
  pc = "done" =>
    LET l == responses[1].logs
        s == Count(l, "success")
        e == Count(l, "error")
    IN  /\ (s = 2 /\ e = 0) \/ (s = 0 /\ e = 1)
        /\ (s = 2 /\ e = 0) <=> completion.kind = "ok"
        /\ (s = 0 /\ e = 1) <=>
             (API_KEY = None \/ API_KEY = <<>> \/ completion.kind = "raise")
        /\ completion.kind = "ok" =>
             /\ l[Len(l) - 1] = Entry("success", MSG_PATCH_APPLIED)
             /\ l[Len(l)] = Entry("success", MSG_DEPLOYMENT_READY)
             /\ responses[1].fixed_code =
                  Replace(Replace(completion.text, FENCE_PYTHON, <<>>),
                          FENCE, <<>>)

\* a completion that returned fenced text has been answered
C10_Witness ==
  /\ pc = "done"
  /\ completion.kind = "ok"
  /\ Contains(completion.text, FENCE)
  /\ Count(logs, "success") = 2

=============================================================================
